---- MODULE Spec2Model ----
(***************************************************************************)
(* vve_cli: a command-line client of a text-to-speech engine.              *)
(*                                                                         *)
(* The model covers the endpoint framework (MetaEndPoint.run and the       *)
(* endpoint classes of vve_service.py), the Service facade and its         *)
(* registry, the TaggedDumper of dumper.py, and the two synthesis          *)
(* pipelines tts_stream / tts_batch of text_to_speech.py together with the *)
(* playback handles of the audio layer.                                    *)
(*                                                                         *)
(* Strings that the program concatenates or formats (tags, file names,     *)
(* base64 text) are sequences of one-character strings.  Time is counted   *)
(* in ticks, TicksPerMilli of them to a millisecond.                       *)
(***************************************************************************)
EXTENDS Integers, Sequences, FiniteSets, TLC

VARIABLES
    mode,             \* what drives the facade: "stream" | "batch" | "call" |
                      \* "session", "main" for main from its first line,
                      \* "main_batch" for the batch branch of main.py, or
                      \* "dumper" for a TaggedDumper on its own
    is_stdin,         \* main: args.speech_file == sys.stdin
    byte_strings,     \* main: the lines read from args.speech_file
    selector,         \* the items the caller wrote after -n
    line_numbers_arg, \* the text of the -n argument, as the parser gets it
    line_numbers,     \* main: args.line_numbers, the parsed selector
    printed,          \* what main printed: stream and text, in order
    exit_code,        \* the status the process exited with, -1 while it runs
    texts,            \* the line list handed to the pipeline
    speaker_id,       \* the speaker id of the run
    text_src_name,    \* the tag of the run: "stdin" or the input file's stem
    has_dump_dir,     \* whether the facade was given a dump directory
    pc,               \* position of the control thread
    idx,              \* number of loop iterations completed
    exc,              \* the exception that ended the run, "none" otherwise
    template,         \* tts_stream: autio_query_response
    audio_query_list, \* tts_batch: audio_query_list
    wave_response,    \* the bytes last returned by synthesis / connect_waves
    zip_response,     \* tts_batch: the bytes returned by multi_synthesis
    wava_b64_list,    \* tts_batch: wava_b64_list
    play_obj,         \* the playback handle the pipeline holds, None = 0
    outstanding,      \* playback handles started and not yet finished
    played,           \* the waveforms handed to playback, in order
    reported,         \* the totals printed by the pipeline, in order
    t_pipe,           \* the pipeline's IntervalTimer (its start time)
    rpc,              \* position inside MetaEndPoint.run
    cur,              \* the keyword arguments of the current run
    response,         \* the response of the current run
    t_run,            \* run's IntervalTimer (its start time)
    response_time,    \* run's local response_time
    logged,           \* the elapsed time the log step printed
    ret,              \* the value run returned
    steps,            \* the steps the current run has performed, in order
    req_begin,        \* clock when the request step began
    req_end,          \* clock when the request step ended
    calls,            \* every engine call issued so far, in order
    apis,             \* the facade's registry: endpoint name -> descriptor
    files,            \* the dump tree: path -> content
    dirs,             \* the dump directories that exist
    dumps,            \* every path a dump call wrote, in order
    dumper,           \* a TaggedDumper used on its own
    now               \* the clock (time.perf_counter), in ticks

vars == << mode, is_stdin, byte_strings, selector, line_numbers_arg,
           line_numbers, printed, exit_code, texts, speaker_id, text_src_name, has_dump_dir, pc, idx, exc, template,
           audio_query_list, wave_response, zip_response, wava_b64_list,
           play_obj, outstanding, played, reported, t_pipe, rpc, cur,
           response, t_run, response_time, logged, ret, steps, req_begin,
           req_end, calls, apis, files, dirs, dumps, dumper, now >>

cliVars == << is_stdin, byte_strings, selector, line_numbers_arg,
              line_numbers, printed, exit_code >>

envVars == << mode, cliVars, texts, speaker_id, text_src_name, has_dump_dir,
              dumper >>

pipeVars == << idx, template, audio_query_list, wave_response, zip_response,
               wava_b64_list, play_obj, outstanding, played, reported, t_pipe >>

runVars == << rpc, cur, response, t_run, response_time, logged, ret, steps,
              req_begin, req_end, calls >>

fsVars == << files, dirs, dumps >>

dumpVars == << apis, files, dirs, dumps >>

----------------------------------------------------------------------------
(* Bounds of the model.                                                    *)

MaxLines == 2        \* longest line list
MaxClock == 2        \* the clock stops advancing here
MaxMembers == 3      \* most members of a multi_synthesis archive
MaxApiCalls == 2     \* most facade calls of one api-mode session
MaxDumps == 4        \* most dump calls on a stand-alone TaggedDumper
TicksPerMilli == 2   \* clock ticks per millisecond

Lines == {"a", "b"}
SpeakerIds == {0}
SrcNames == {<<"i", "n">>}

----------------------------------------------------------------------------
(* Text helpers.                                                           *)

Digits == <<"0", "1", "2", "3", "4", "5", "6", "7", "8", "9">>

RECURSIVE Decimal(_)
\* str(n) for n >= 0
Decimal(n) ==
    IF n < 10 THEN << Digits[n + 1] >>
    ELSE Decimal(n \div 10) \o << Digits[(n % 10) + 1] >>

RECURSIVE ZeroPad(_, _)
ZeroPad(s, width) == IF Len(s) >= width THEN s ELSE ZeroPad(<<"0">> \o s, width)

\* f"{n:0{width}d}" for n >= 0
FormatD(n, width) == ZeroPad(Decimal(n), width)

\* the default value of the tag parameter
DefaultTag == <<"d", "u", "m", "p">>

\* tag + f"_s{speaker_id:02d}"
SpeakerTag(tag, sid) == tag \o <<"_", "s">> \o FormatD(sid, 2)

----------------------------------------------------------------------------
(* time.perf_counter and IntervalTimer (main.py).                          *)

\* round(seconds, 3): ticks to the nearest millisecond
Round3(d) == (2 * d + TicksPerMilli) \div (2 * TicksPerMilli)

\* IntervalTimer.elapsed for a timer constructed at clock value t
Elapsed(t) == Round3(now - t)

----------------------------------------------------------------------------
(* TaggedDumper (dumper.py).                                               *)

NoDumper == [made |-> FALSE, dir |-> "", index |-> 0, ext |-> <<>>]

\* TaggedDumper.__init__
NewDumper(dump_dir, extention, is_indexed) ==
    [made |-> TRUE, dir |-> dump_dir,
     index |-> IF is_indexed THEN 1 ELSE 0, ext |-> extention]

\* dump_name of one dump call
DumpName(d, tag) ==
    IF d.index > 0
    THEN tag \o <<"_">> \o FormatD(d.index, 3) \o <<".">> \o d.ext
    ELSE tag \o <<".">> \o d.ext

DumpPath(d, tag) == [dir |-> d.dir, name |-> DumpName(d, tag)]

\* the dumper after one dump call: an indexed dumper moves its counter on
DumperAfterDumpStuck(d) == d

DumperAfterDump(d) ==
    IF d.index > 0 THEN [d EXCEPT !.index = @ + 1] ELSE d

\* a dump call that starts from an emptied directory
DumpEffectCleared(d, content, tag) ==
    /\ dirs' = dirs \cup {d.dir}
    /\ files' = (DumpPath(d, tag) :> content)
    /\ dumps' = Append(dumps, DumpPath(d, tag))

\* what one dump call does to the dump tree
DumpEffect(d, content, tag) ==
    /\ dirs' = dirs \cup {d.dir}
    /\ files' = (DumpPath(d, tag) :> content) @@ files
    /\ dumps' = Append(dumps, DumpPath(d, tag))

ExtJson == <<"j", "s", "o", "n">>
ExtWav == <<"w", "a", "v">>
ExtZip == <<"z", "i", "p">>

----------------------------------------------------------------------------
(* Values that travel between the client and the engine.                   *)

\* a decoded JSON value: "ok" is the shape the endpoint documents, "empty"
\* is {}, "error" is the engine's error object {"detail": ...}
Json(shape, src) == [t |-> "json", shape |-> shape, src |-> src, members |-> <<>>]

\* a byte string: a wav file, a zip archive (with its members), or neither
Bytes(shape, src, members) ==
    [t |-> "bytes", shape |-> shape, src |-> src, members |-> members]

EmptyObj == Json("empty", "")
ErrorObj == Json("error", "")
JunkBytes == Bytes("junk", "", <<>>)
NoValue == [t |-> "none", shape |-> "none", src |-> "", members |-> <<>>]

\* an audio query dict: the decoded audio_query result and, once assigned,
\* its "accent_phrases" entry
Query(base, spliced, ap) == [base |-> base, spliced |-> spliced, ap |-> ap]
NoQuery == Query(NoValue, FALSE, NoValue)

\* the keyword arguments of a facade call
Args(api) ==
    [api |-> api, text |-> "", audio_query |-> NoQuery, audio_queries |-> <<>>,
     base64_waves |-> <<>>, accent_phrases |-> NoValue, speaker_id |-> 0,
     tag |-> DefaultTag]

NoArgs == Args("none")

\* the members an engine may put into a multi_synthesis archive
MemberPool ==
    { [name |-> "a", data |-> <<82>>],
      [name |-> "b", data |-> <<73, 70>>],
      [name |-> "c", data |-> <<70, 87, 65>>] }

RECURSIVE SeqsNoRepeat(_, _)
SeqsNoRepeat(S, n) ==
    IF n = 0 THEN { <<>> }
    ELSE LET shorter == SeqsNoRepeat(S, n - 1)
             longest == { r \in shorter : Len(r) = n - 1 }
         IN  shorter \cup
             UNION { { Append(q, m) : m \in S \ { q[i] : i \in 1..Len(q) } } :
                     q \in longest }

Archives == SeqsNoRepeat(MemberPool, MaxMembers)

\* what audio_query["accent_phrases"] evaluates to: found is FALSE for KeyError
AccentPhrasesOf(q) ==
    IF q.spliced THEN [found |-> TRUE, value |-> q.ap]
    ELSE IF q.base.shape = "ok"
         THEN [found |-> TRUE, value |-> Json("ok", q.base.src)]
         ELSE [found |-> FALSE, value |-> NoValue]

\* the text the moras of an accent phrase list spell
SpokenText(q) ==
    LET ap == AccentPhrasesOf(q)
    IN  IF ap.found /\ ap.value.shape = "ok" THEN ap.value.src ELSE ""

\* the body of a well-formed answer of the engine to a request
EngineOk(args, archive) ==
    CASE args.api \in {"version", "speakers"} -> Json("ok", "")
      [] args.api \in {"audio_query", "accent_phrases"} -> Json("ok", args.text)
      [] args.api \in {"mora_data", "mora_length", "mora_pitch"} ->
             Json("ok", args.accent_phrases.src)
      [] args.api = "synthesis" -> Bytes("wav", SpokenText(args.audio_query), <<>>)
      [] args.api = "multi_synthesis" -> Bytes("zip", "", archive)
      [] args.api = "connect_waves" -> Bytes("wav", "joined", <<>>)

\* how the engine may answer: as documented, with 200 and a body that is not
\* in the expected format, or with a non-2xx status and its error object
RespKinds == {"ok", "garbled", "http_error"}

ResponseOf(kind, args, archive) ==
    [kind |-> kind,
     body |-> CASE kind = "ok" -> EngineOk(args, archive)
                [] kind = "garbled" -> JunkBytes
                [] kind = "http_error" -> ErrorObj]

NoResponse == [kind |-> "none", body |-> NoValue]

----------------------------------------------------------------------------
(* The endpoint classes and the facade's registry (vve_service.py).        *)

JsonApis == {"version", "speakers", "audio_query", "accent_phrases",
             "mora_data", "mora_length", "mora_pitch"}
BinaryApis == {"synthesis", "multi_synthesis", "connect_waves"}
ApiNames == JsonApis \cup BinaryApis

\* the endpoint type each facade method hands to _get_api
ApiClass(api) ==
    CASE api \in {"version", "speakers"} -> "InformationQueryAPI"
      [] api = "audio_query" -> "TextToAudioQueryAPI"
      [] api = "accent_phrases" -> "TextToAccentPhrasesAPI"
      [] api \in {"mora_data", "mora_length", "mora_pitch"} -> "AccentPhraseEditAPI"
      [] api = "synthesis" -> "SynthesisAPI"
      [] api = "multi_synthesis" -> "BatchSynthesisAPI"
      [] api = "connect_waves" -> "ConcatWavesAPI"

\* EndPoint.__init__
NewEndPoint(cls, api) == [cls |-> cls, api_name |-> api, dumper |-> NoDumper]

\* a registry that constructs a descriptor on every call
GetApiFresh(api) == (api :> NewEndPoint(ApiClass(api), api)) @@ apis

\* VveService._get_api: the registry after resolving api
GetApi(api) ==
    IF api \in DOMAIN apis THEN apis
    ELSE (api :> NewEndPoint(ApiClass(api), api)) @@ apis

\* dumpers that write into one directory per endpoint class
ClassDumperPerClass(cls, api) ==
    CASE cls = "InformationQueryAPI" -> NewDumper(cls, ExtJson, FALSE)
      [] cls \in {"TextToAudioQueryAPI", "TextToAccentPhrasesAPI",
                  "AccentPhraseEditAPI"} -> NewDumper(cls, ExtJson, TRUE)
      [] cls \in {"SynthesisAPI", "ConcatWavesAPI"} -> NewDumper(cls, ExtWav, TRUE)
      [] cls = "BatchSynthesisAPI" -> NewDumper(cls, ExtZip, TRUE)

\* the TaggedDumper each class constructs on its first dump
ClassDumper(cls, api) ==
    CASE cls = "InformationQueryAPI" -> NewDumper(api, ExtJson, FALSE)
      [] cls \in {"TextToAudioQueryAPI", "TextToAccentPhrasesAPI",
                  "AccentPhraseEditAPI"} -> NewDumper(api, ExtJson, TRUE)
      [] cls \in {"SynthesisAPI", "ConcatWavesAPI"} -> NewDumper(api, ExtWav, TRUE)
      [] cls = "BatchSynthesisAPI" -> NewDumper(api, ExtZip, TRUE)

\* the tag each class's _set_content dumps under
ClassDumpTag(cls, args) ==
    CASE cls = "InformationQueryAPI" -> DefaultTag
      [] cls = "ConcatWavesAPI" -> args.tag
      [] OTHER -> SpeakerTag(args.tag, args.speaker_id)

\* response.json(): ok is FALSE when it raises JSONDecodeError
ResponseJson(resp) == [ok |-> resp.body.t = "json", value |-> resp.body]

\* InformationQueryAPI._set_content, the value returned
InformationQueryContent(resp) ==
    IF ResponseJson(resp).ok THEN ResponseJson(resp).value ELSE EmptyObj

\* TextToAudioQueryAPI._set_content (and TextToAccentPhrasesAPI, which inherits it)
TextToAudioQueryContentRaw(resp) == resp.body

TextToAudioQueryContent(resp) ==
    IF ResponseJson(resp).ok THEN ResponseJson(resp).value ELSE EmptyObj

\* AccentPhraseEditAPI._set_content, the value returned
AccentPhraseEditContent(resp) ==
    IF ResponseJson(resp).ok THEN ResponseJson(resp).value ELSE EmptyObj

\* SynthesisAPI / BatchSynthesisAPI / ConcatWavesAPI._set_content: response.content
BinaryContent(resp) ==
    [t |-> "bytes", shape |-> resp.body.shape, src |-> resp.body.src,
     members |-> resp.body.members]

\* the value _set_content returns, by class
ClassContent(cls, resp) ==
    CASE cls = "InformationQueryAPI" -> InformationQueryContent(resp)
      [] cls \in {"TextToAudioQueryAPI", "TextToAccentPhrasesAPI"} ->
             TextToAudioQueryContent(resp)
      [] cls = "AccentPhraseEditAPI" -> AccentPhraseEditContent(resp)
      [] OTHER -> BinaryContent(resp)

\* the exception _put_log raises, "none" when it completes.  Only
\* SynthesisAPI._put_log reads its arguments' structure.
LogException(cls, args) ==
    IF cls # "SynthesisAPI" THEN "none"
    ELSE LET ap == AccentPhrasesOf(args.audio_query)
         IN  IF ~ap.found THEN "KeyError"
             ELSE IF ap.value.shape = "error" THEN "TypeError"
             ELSE "none"

\* the text part of the telemetry line
LogText(cls, args) ==
    CASE cls \in {"TextToAudioQueryAPI", "TextToAccentPhrasesAPI"} -> args.text
      [] cls = "SynthesisAPI" -> SpokenText(args.audio_query)
      [] OTHER -> ""

NoLog == [time |-> 0, text |-> ""]

----------------------------------------------------------------------------
(* MetaEndPoint.run (vve_service.py): request, log, extract.               *)

CallRecord(args) ==
    [args |-> args, state |-> "inflight", kind |-> "none", result |-> NoValue]

\* a facade method: resolve the descriptor, enter run, start its timer and
\* send the request
Issue(args) ==
    /\ rpc = "idle"
    /\ apis' = GetApi(args.api)
    /\ cur' = args
    /\ rpc' = "request"
    /\ t_run' = now
    /\ req_begin' = now
    /\ req_end' = now
    /\ steps' = <<"request">>
    /\ response' = NoResponse
    /\ response_time' = 0
    /\ logged' = NoLog
    /\ ret' = NoValue
    /\ calls' = Append(calls, CallRecord(args))

\* the request step returns a response; run reads its timer
RequestReturn ==
    /\ rpc = "request"
    /\ \E kind \in RespKinds :
         \E archive \in (IF cur.api = "multi_synthesis" /\ kind = "ok"
                         THEN Archives ELSE { <<>> }) :
           /\ response' = ResponseOf(kind, cur, archive)
           /\ calls' = [calls EXCEPT ![Len(calls)].kind = kind]
    /\ response_time' = Elapsed(t_run)
    /\ req_end' = now
    /\ rpc' = "log"
    /\ UNCHANGED << envVars, pc, exc, pipeVars, cur, t_run, logged,
                    ret, steps, req_begin, dumpVars, now >>

\* a request step that sends the request again when the transport fails
RequestRaiseRetry ==
    /\ rpc = "request"
    /\ calls' = Append([calls EXCEPT ![Len(calls)].state = "raised",
                                     ![Len(calls)].kind = "transport"],
                       CallRecord(cur))
    /\ UNCHANGED << envVars, pc, exc, pipeVars, rpc, cur, response, t_run,
                    response_time, logged, ret, steps, req_begin, req_end,
                    dumpVars, now >>

\* the request step raises: the transport could not reach the engine
RequestRaise ==
    /\ rpc = "request"
    /\ rpc' = "raised"
    /\ exc' = "ConnectionError"
    /\ calls' = [calls EXCEPT ![Len(calls)].state = "raised",
                              ![Len(calls)].kind = "transport"]
    /\ UNCHANGED << envVars, pc, pipeVars, cur, response, t_run,
                    response_time, logged, ret, steps, req_begin, req_end,
                    dumpVars, now >>

\* the log step, reading the timer only now
PutLogLate ==
    /\ rpc = "log"
    /\ steps' = Append(steps, "log")
    /\ LET e == LogException(apis[cur.api].cls, cur)
       IN  IF e = "none"
           THEN /\ logged' = [time |-> Elapsed(t_run),
                              text |-> LogText(apis[cur.api].cls, cur)]
                /\ rpc' = "extract"
                /\ UNCHANGED << exc, calls >>
           ELSE /\ rpc' = "raised"
                /\ exc' = e
                /\ calls' = [calls EXCEPT ![Len(calls)].state = "raised"]
                /\ UNCHANGED logged
    /\ UNCHANGED << envVars, pc, pipeVars, cur, response, t_run,
                    response_time, ret, req_begin, req_end, dumpVars, now >>

\* the log step: _put_log(response_time, response, **kwargs)
PutLog ==
    /\ rpc = "log"
    /\ steps' = Append(steps, "log")
    /\ LET e == LogException(apis[cur.api].cls, cur)
       IN  IF e = "none"
           THEN /\ logged' = [time |-> response_time,
                              text |-> LogText(apis[cur.api].cls, cur)]
                /\ rpc' = "extract"
                /\ UNCHANGED << exc, calls >>
           ELSE /\ rpc' = "raised"
                /\ exc' = e
                /\ calls' = [calls EXCEPT ![Len(calls)].state = "raised"]
                /\ UNCHANGED logged
    /\ UNCHANGED << envVars, pc, pipeVars, cur, response, t_run,
                    response_time, ret, req_begin, req_end, dumpVars, now >>

\* the extract step: _set_content(response, **kwargs), which dumps the raw
\* payload when a dump directory is set and returns the decoded value
SetContent ==
    /\ rpc = "extract"
    /\ steps' = Append(steps, "extract")
    /\ LET ep == apis[cur.api]
           d == IF ep.dumper.made THEN ep.dumper
                ELSE ClassDumper(ep.cls, ep.api_name)
           value == ClassContent(ep.cls, response)
       IN  /\ IF has_dump_dir
              THEN /\ apis' = [apis EXCEPT ![cur.api].dumper = DumperAfterDump(d)]
                   /\ DumpEffect(d, response.body, ClassDumpTag(ep.cls, cur))
              ELSE UNCHANGED dumpVars
           /\ ret' = value
           /\ calls' = [calls EXCEPT ![Len(calls)].state = "returned",
                                     ![Len(calls)].result = value]
    /\ rpc' = "returned"
    /\ UNCHANGED << envVars, pc, exc, pipeVars, cur, response,
                    t_run, response_time, logged, req_begin, req_end, now >>

\* the clock advances
Tick ==
    /\ now < MaxClock
    /\ pc \notin {"done", "crashed"}
    /\ now' = now + 1
    /\ UNCHANGED << envVars, pc, exc, pipeVars, runVars, dumpVars >>

----------------------------------------------------------------------------
(* Helpers of the pipelines (text_to_speech.py).                           *)

B64Alphabet ==
    << "A", "B", "C", "D", "E", "F", "G", "H", "I", "J", "K", "L", "M",
       "N", "O", "P", "Q", "R", "S", "T", "U", "V", "W", "X", "Y", "Z",
       "a", "b", "c", "d", "e", "f", "g", "h", "i", "j", "k", "l", "m",
       "n", "o", "p", "q", "r", "s", "t", "u", "v", "w", "x", "y", "z",
       "0", "1", "2", "3", "4", "5", "6", "7", "8", "9", "+", "/" >>

RECURSIVE StandardB64Encode(_)
\* standard_b64encode(bs).decode("utf-8") for a sequence of bytes
StandardB64Encode(bs) ==
    LET c(n) == B64Alphabet[n + 1]
    IN  CASE Len(bs) = 0 -> <<>>
          [] Len(bs) = 1 ->
               << c(bs[1] \div 4), c((bs[1] % 4) * 16), "=", "=" >>
          [] Len(bs) = 2 ->
               << c(bs[1] \div 4), c((bs[1] % 4) * 16 + bs[2] \div 16),
                  c((bs[2] % 16) * 4), "=" >>
          [] OTHER ->
               << c(bs[1] \div 4), c((bs[1] % 4) * 16 + bs[2] \div 16),
                  c((bs[2] % 16) * 4 + bs[3] \div 64), c(bs[3] % 64) >>
               \o StandardB64Encode(SubSeq(bs, 4, Len(bs)))

\* ZipFile(BytesIO(b)) succeeds; it raises BadZipFile otherwise
IsZip(b) == b.shape = "zip"

\* ZipFile.namelist(): the member names in the archive's order
ZipNameList(b) == [i \in 1..Len(b.members) |-> b.members[i].name]

\* ZipFile.open(name).read(): the data of the last member of that name
ZipRead(b, name) ==
    LET last == CHOOSE i \in 1..Len(b.members) :
                  /\ b.members[i].name = name
                  /\ \A j \in (i + 1)..Len(b.members) : b.members[j].name # name
    IN  b.members[last].data

\* wave.open(BytesIO(b)) succeeds; it raises wave.Error otherwise
IsWave(b) == b.shape = "wav"

\* the run's frame is left: its value is taken and its locals are gone
TakeReturn ==
    /\ rpc = "returned"
    /\ rpc' = "idle"
    /\ cur' = NoArgs
    /\ response' = NoResponse
    /\ t_run' = 0
    /\ response_time' = 0
    /\ logged' = NoLog
    /\ ret' = NoValue
    /\ steps' = <<>>
    /\ req_begin' = 0
    /\ req_end' = 0
    /\ UNCHANGED calls

\* wave_obj.play(): a new playback handle, outstanding from now on
Play(w) ==
    /\ play_obj' = Len(played) + 1
    /\ outstanding' = outstanding \cup { Len(played) + 1 }
    /\ played' = Append(played, w)

\* a wait_done that returns at once
WaitDoneIgnored(h) == TRUE

\* play_obj.wait_done() returns once the handle's playback has finished
WaitDone(h) == h \notin outstanding

\* a loop over sorted(namelist())
NameRank(n) == CASE n = "a" -> 1 [] n = "b" -> 2 [] OTHER -> 3

UnpackSorted(b) ==
    LET names == ZipNameList(b)
        sorted == CHOOSE q \in [1..Len(names) -> { names[i] : i \in 1..Len(names) }] :
                    /\ \A i \in 1..Len(names) : \E j \in 1..Len(names) : q[j] = names[i]
                    /\ \A i, j \in 1..Len(names) :
                         i < j => NameRank(q[i]) < NameRank(q[j])
    IN  [i \in 1..Len(names) |-> StandardB64Encode(ZipRead(b, sorted[i]))]

\* tts_batch's loop over the archive: one base64 text per name of namelist()
Unpack(b) ==
    LET names == ZipNameList(b)
    IN  [i \in 1..Len(names) |-> StandardB64Encode(ZipRead(b, names[i]))]

----------------------------------------------------------------------------
(* tts_stream (text_to_speech.py).                                         *)

StreamCallAudioQuery ==
    /\ pc = "s_aq"
    /\ Issue([Args("audio_query") EXCEPT !.text = "", !.speaker_id = speaker_id])
    /\ pc' = "s_aq_ret"
    /\ UNCHANGED << envVars, exc, pipeVars, fsVars, now >>

StreamGotAudioQuery ==
    /\ pc = "s_aq_ret"
    /\ TakeReturn
    /\ template' = Query(ret, FALSE, NoValue)
    /\ pc' = "s_loop"
    /\ UNCHANGED << envVars, exc, idx, audio_query_list, wave_response,
                    zip_response, wava_b64_list, play_obj, outstanding, played,
                    reported, t_pipe, dumpVars, now >>

\* a loop that lets the previous playback finish before it goes to the network
StreamCallAccentPhrasesAfterPlayback ==
    /\ pc = "s_loop"
    /\ idx < Len(texts)
    /\ play_obj # 0 => WaitDone(play_obj)
    /\ Issue([Args("accent_phrases") EXCEPT !.text = texts[idx + 1],
                                            !.speaker_id = speaker_id,
                                            !.tag = text_src_name])
    /\ pc' = "s_ap_ret"
    /\ UNCHANGED << envVars, exc, pipeVars, fsVars, now >>

StreamCallAccentPhrases ==
    /\ pc = "s_loop"
    /\ idx < Len(texts)
    /\ Issue([Args("accent_phrases") EXCEPT !.text = texts[idx + 1],
                                            !.speaker_id = speaker_id,
                                            !.tag = text_src_name])
    /\ pc' = "s_ap_ret"
    /\ UNCHANGED << envVars, exc, pipeVars, fsVars, now >>

\* a loop that assigns the accent phrases of the first line only
StreamGotAccentPhrasesFirstOnly ==
    /\ pc = "s_ap_ret"
    /\ TakeReturn
    /\ template' = IF template.spliced THEN template
                   ELSE Query(template.base, TRUE, ret)
    /\ pc' = "s_syn"
    /\ UNCHANGED << envVars, exc, idx, audio_query_list, wave_response,
                    zip_response, wava_b64_list, play_obj, outstanding, played,
                    reported, t_pipe, dumpVars, now >>

\* autio_query_response["accent_phrases"] = accent_phrases_response
StreamGotAccentPhrases ==
    /\ pc = "s_ap_ret"
    /\ TakeReturn
    /\ template' = Query(template.base, TRUE, ret)
    /\ pc' = "s_syn"
    /\ UNCHANGED << envVars, exc, idx, audio_query_list, wave_response,
                    zip_response, wava_b64_list, play_obj, outstanding, played,
                    reported, t_pipe, dumpVars, now >>

StreamCallSynthesis ==
    /\ pc = "s_syn"
    /\ Issue([Args("synthesis") EXCEPT !.audio_query = template,
                                       !.speaker_id = speaker_id,
                                       !.tag = text_src_name])
    /\ pc' = "s_syn_ret"
    /\ UNCHANGED << envVars, exc, pipeVars, fsVars, now >>

StreamGotSynthesis ==
    /\ pc = "s_syn_ret"
    /\ TakeReturn
    /\ wave_response' = ret
    /\ pc' = "s_wait"
    /\ UNCHANGED << envVars, exc, idx, template, audio_query_list,
                    zip_response, wava_b64_list, play_obj, outstanding, played,
                    reported, t_pipe, dumpVars, now >>

\* if play_obj is not None: play_obj.wait_done()
StreamWaitPrevious ==
    /\ pc = "s_wait"
    /\ play_obj # 0 => WaitDone(play_obj)
    /\ pc' = "s_play"
    /\ UNCHANGED << envVars, exc, pipeVars, runVars, dumpVars, now >>

\* wave.open(...) and wave_obj.play(), which ends the loop body
StreamPlay ==
    /\ pc = "s_play"
    /\ IF IsWave(wave_response)
       THEN /\ Play(wave_response)
            /\ idx' = idx + 1
            /\ pc' = "s_loop"
            /\ UNCHANGED exc
       ELSE /\ pc' = "crashed"
            /\ exc' = "wave.Error"
            /\ UNCHANGED << idx, play_obj, outstanding, played >>
    /\ UNCHANGED << envVars, template, audio_query_list, wave_response,
                    zip_response, wava_b64_list, reported, t_pipe, runVars,
                    dumpVars, now >>

\* the loop is over: print("{:.3f} [sec]".format(t.elapsed()))
StreamPrintElapsed ==
    /\ pc = "s_loop"
    /\ idx = Len(texts)
    /\ reported' = Append(reported, Elapsed(t_pipe))
    /\ pc' = "s_final"
    /\ UNCHANGED << envVars, exc, idx, template, audio_query_list,
                    wave_response, zip_response, wava_b64_list, play_obj,
                    outstanding, played, t_pipe, runVars, dumpVars, now >>

\* a tts_stream that returns without its last wait_done
StreamFinalWaitSkipped ==
    /\ pc = "s_final"
    /\ pc' = "done"
    /\ UNCHANGED << envVars, exc, pipeVars, runVars, dumpVars, now >>

\* the last statement: play_obj.wait_done(), then tts_stream returns
StreamFinalWait ==
    /\ pc = "s_final"
    /\ \/ /\ play_obj = 0
          /\ pc' = "crashed"
          /\ exc' = "AttributeError"
       \/ /\ play_obj # 0
          /\ WaitDone(play_obj)
          /\ pc' = "done"
          /\ UNCHANGED exc
    /\ UNCHANGED << envVars, pipeVars, runVars, dumpVars, now >>

----------------------------------------------------------------------------
(* tts_batch (text_to_speech.py).                                          *)

BatchCallAudioQuery ==
    /\ pc = "b_loop"
    /\ idx < Len(texts)
    /\ Issue([Args("audio_query") EXCEPT !.text = texts[idx + 1],
                                         !.speaker_id = speaker_id,
                                         !.tag = text_src_name])
    /\ pc' = "b_aq_ret"
    /\ UNCHANGED << envVars, exc, pipeVars, fsVars, now >>

\* a loop that puts each result in front of the list
BatchGotAudioQueryPrepend ==
    /\ pc = "b_aq_ret"
    /\ TakeReturn
    /\ audio_query_list' = << ret >> \o audio_query_list
    /\ idx' = idx + 1
    /\ pc' = "b_loop"
    /\ UNCHANGED << envVars, exc, template, wave_response, zip_response,
                    wava_b64_list, play_obj, outstanding, played, reported,
                    t_pipe, dumpVars, now >>

\* audio_query_list.append(autio_query_response)
BatchGotAudioQuery ==
    /\ pc = "b_aq_ret"
    /\ TakeReturn
    /\ audio_query_list' = Append(audio_query_list, ret)
    /\ idx' = idx + 1
    /\ pc' = "b_loop"
    /\ UNCHANGED << envVars, exc, template, wave_response, zip_response,
                    wava_b64_list, play_obj, outstanding, played, reported,
                    t_pipe, dumpVars, now >>

BatchCallMultiSynthesis ==
    /\ pc = "b_loop"
    /\ idx = Len(texts)
    /\ Issue([Args("multi_synthesis") EXCEPT !.audio_queries = audio_query_list,
                                             !.speaker_id = speaker_id,
                                             !.tag = text_src_name])
    /\ pc' = "b_ms_ret"
    /\ UNCHANGED << envVars, exc, pipeVars, fsVars, now >>

BatchGotMultiSynthesis ==
    /\ pc = "b_ms_ret"
    /\ TakeReturn
    /\ zip_response' = ret
    /\ pc' = "b_unzip"
    /\ UNCHANGED << envVars, exc, idx, template, audio_query_list,
                    wave_response, wava_b64_list, play_obj, outstanding, played,
                    reported, t_pipe, dumpVars, now >>

\* with ZipFile(BytesIO(zip_response)) as waves_zip: ... the unpacking loop
BatchUnzip ==
    /\ pc = "b_unzip"
    /\ IF IsZip(zip_response)
       THEN /\ wava_b64_list' = Unpack(zip_response)
            /\ pc' = "b_cw"
            /\ UNCHANGED exc
       ELSE /\ pc' = "crashed"
            /\ exc' = "BadZipFile"
            /\ UNCHANGED wava_b64_list
    /\ UNCHANGED << envVars, idx, template, audio_query_list, wave_response,
                    zip_response, play_obj, outstanding, played, reported,
                    t_pipe, runVars, dumpVars, now >>

BatchCallConnectWaves ==
    /\ pc = "b_cw"
    /\ Issue([Args("connect_waves") EXCEPT !.base64_waves = wava_b64_list,
                                           !.tag = text_src_name])
    /\ pc' = "b_cw_ret"
    /\ UNCHANGED << envVars, exc, pipeVars, fsVars, now >>

BatchGotConnectWaves ==
    /\ pc = "b_cw_ret"
    /\ TakeReturn
    /\ wave_response' = ret
    /\ pc' = "b_print"
    /\ UNCHANGED << envVars, exc, idx, template, audio_query_list,
                    zip_response, wava_b64_list, play_obj, outstanding, played,
                    reported, t_pipe, dumpVars, now >>

\* print("{:.3f} [sec]".format(t.elapsed()))
BatchPrintElapsed ==
    /\ pc = "b_print"
    /\ reported' = Append(reported, Elapsed(t_pipe))
    /\ pc' = "b_play"
    /\ UNCHANGED << envVars, exc, idx, template, audio_query_list,
                    wave_response, zip_response, wava_b64_list, play_obj,
                    outstanding, played, t_pipe, runVars, dumpVars, now >>

\* simpleaudio.WaveObject.from_wave_read(wave.open(...)).play()
BatchPlay ==
    /\ pc = "b_play"
    /\ IF IsWave(wave_response)
       THEN /\ Play(wave_response)
            /\ pc' = "b_wait"
            /\ UNCHANGED exc
       ELSE /\ pc' = "crashed"
            /\ exc' = "wave.Error"
            /\ UNCHANGED << play_obj, outstanding, played >>
    /\ UNCHANGED << envVars, idx, template, audio_query_list, wave_response,
                    zip_response, wava_b64_list, reported, t_pipe, runVars,
                    dumpVars, now >>

\* .wait_done(), then tts_batch returns
BatchWait ==
    /\ pc = "b_wait"
    /\ WaitDone(play_obj)
    /\ pc' = "done"
    /\ UNCHANGED << envVars, exc, pipeVars, runVars, dumpVars, now >>

----------------------------------------------------------------------------
(* What surrounds the pipelines.                                           *)

\* an exception raised inside run is caught neither by run, nor by the
\* facade, nor by the pipelines: it ends the caller
Propagate ==
    /\ rpc = "raised"
    /\ rpc' = "idle"
    /\ pc' = "crashed"
    /\ UNCHANGED << envVars, exc, pipeVars, cur, response, t_run,
                    response_time, logged, ret, steps, req_begin, req_end,
                    calls, dumpVars, now >>

\* the audio layer finishes playing a handle
PlaybackFinish ==
    /\ pc # "crashed"
    /\ \E h \in outstanding : outstanding' = outstanding \ { h }
    /\ UNCHANGED << envVars, pc, exc, idx, template, audio_query_list,
                    wave_response, zip_response, wava_b64_list, play_obj,
                    played, reported, t_pipe, runVars, dumpVars, now >>

----------------------------------------------------------------------------
(* A client of the facade (VveService) calling its methods: one call in    *)
(* mode "call", a sequence of calls in mode "session".                     *)

ApiTexts == { "a" }
ApiTags == { DefaultTag, <<"t">> }
ApiQueries == { Query(Json("ok", "a"), FALSE, NoValue),
                Query(EmptyObj, FALSE, NoValue) }
ApiPhrases == { Json("ok", "a") }

\* the keyword arguments the facade method api may be given
ApiArgs(api) ==
    CASE api \in {"version", "speakers"} -> { Args(api) }
      [] api \in {"audio_query", "accent_phrases"} ->
             { [Args(api) EXCEPT !.text = x, !.speaker_id = speaker_id, !.tag = g] :
                 x \in ApiTexts, g \in ApiTags }
      [] api \in {"mora_data", "mora_length", "mora_pitch"} ->
             { [Args(api) EXCEPT !.accent_phrases = a, !.speaker_id = speaker_id,
                                 !.tag = g] :
                 a \in ApiPhrases, g \in ApiTags }
      [] api = "synthesis" ->
             { [Args(api) EXCEPT !.audio_query = q, !.speaker_id = speaker_id,
                                 !.tag = g] :
                 q \in ApiQueries, g \in ApiTags }
      [] api = "multi_synthesis" ->
             { [Args(api) EXCEPT !.audio_queries = << Json("ok", "a") >>,
                                 !.speaker_id = speaker_id, !.tag = g] :
                 g \in ApiTags }
      [] api = "connect_waves" ->
             { [Args(api) EXCEPT !.base64_waves = << StandardB64Encode(<<82>>) >>,
                                 !.tag = g] :
                 g \in ApiTags }

\* one facade method is called
ApiCall ==
    /\ pc = "api"
    /\ Len(calls) < (IF mode = "call" THEN 1 ELSE MaxApiCalls)
    /\ \E api \in ApiNames : \E args \in ApiArgs(api) : Issue(args)
    /\ pc' = "api_ret"
    /\ UNCHANGED << envVars, exc, pipeVars, fsVars, now >>

\* the facade method returns to its caller
ApiReturn ==
    /\ pc = "api_ret"
    /\ TakeReturn
    /\ pc' = "api"
    /\ UNCHANGED << envVars, exc, pipeVars, dumpVars, now >>

----------------------------------------------------------------------------
(* A TaggedDumper used on its own (dumper.py).                             *)

DumperDir == "dump"
DumperTags == { <<"t">>, <<"u">> }
DumperContents == { Json("ok", "a"), Bytes("wav", "a", <<>>) }

\* files a dump directory may hold before the dumper is used
OldFile == Json("ok", "old")
OldNames == { <<"t">> \o <<".">> \o ExtJson,
              <<"t", "_", "0", "0", "1">> \o <<".">> \o ExtJson,
              <<"k", "e", "e", "p">> }

\* TaggedDumper.dump(content, tag)
DumperDump ==
    /\ pc = "dumper"
    /\ Len(dumps) < MaxDumps
    /\ \E content \in DumperContents, tag \in DumperTags :
         DumpEffect(dumper, content, tag)
    /\ dumper' = DumperAfterDump(dumper)
    /\ UNCHANGED << mode, cliVars, texts, speaker_id, text_src_name,
                    has_dump_dir, pc, exc, pipeVars, runVars, apis, now >>

----------------------------------------------------------------------------
(* Initial states and specifications.                                      *)

RECURSIVE SeqsUpTo(_, _)
SeqsUpTo(S, n) ==
    IF n = 0 THEN { <<>> }
    ELSE LET shorter == SeqsUpTo(S, n - 1)
         IN  shorter \cup { Append(q, x) : q \in { r \in shorter : Len(r) = n - 1 },
                                           x \in S }

NoFiles == [p \in {} |-> NoValue]

NoApis == [a \in {} |-> NewEndPoint("", "")]

InitCommon ==
    /\ idx = 0
    /\ exc = "none"
    /\ template = NoQuery
    /\ audio_query_list = <<>>
    /\ wave_response = NoValue
    /\ zip_response = NoValue
    /\ wava_b64_list = <<>>
    /\ play_obj = 0
    /\ outstanding = {}
    /\ played = <<>>
    /\ reported = <<>>
    /\ t_pipe = 0
    /\ rpc = "idle"
    /\ cur = NoArgs
    /\ response = NoResponse
    /\ t_run = 0
    /\ response_time = 0
    /\ logged = NoLog
    /\ ret = NoValue
    /\ steps = <<>>
    /\ req_begin = 0
    /\ req_end = 0
    /\ calls = <<>>
    /\ dumps = <<>>
    /\ now = 0
    /\ line_numbers = <<>>
    /\ printed = <<>>
    /\ exit_code = -1

\* the pipelines, the facade and the dumper are entered with main's input
\* already consumed
NoCliInput ==
    /\ is_stdin = FALSE
    /\ byte_strings = <<>>
    /\ selector = <<>>
    /\ line_numbers_arg = <<>>

\* what main's service.version() and service.speakers() leave behind in
\* the facade before it enters a pipeline
MainApis ==
    [a \in {"version", "speakers"} |->
       [NewEndPoint(ApiClass(a), a) EXCEPT
          !.dumper = IF has_dump_dir
                     THEN DumperAfterDump(ClassDumper(ApiClass(a), a))
                     ELSE NoDumper]]

MainPaths == { DumpPath(ClassDumper(ApiClass(a), a), DefaultTag) :
                 a \in {"version", "speakers"} }

\* main has read and selected its lines, built the facade, queried version
\* and speakers, and enters tts_stream or tts_batch, which constructs its
\* timer
InitPipeline ==
    /\ InitCommon
    /\ NoCliInput
    /\ texts \in SeqsUpTo(Lines, MaxLines)
    /\ speaker_id \in SpeakerIds
    /\ text_src_name \in SrcNames
    /\ has_dump_dir \in BOOLEAN
    /\ pc = IF mode \in {"batch", "main_batch"} THEN "b_loop" ELSE "s_aq"
    /\ apis = MainApis
    /\ files = IF has_dump_dir THEN [p \in MainPaths |-> Json("ok", "")] ELSE NoFiles
    /\ dirs = IF has_dump_dir THEN {"version", "speakers"} ELSE {}
    /\ dumper = NoDumper

InitStream == mode = "stream" /\ InitPipeline

InitBatch == mode = "batch" /\ InitPipeline

NextStream ==
    \/ StreamCallAudioQuery \/ StreamGotAudioQuery
    \/ StreamCallAccentPhrases \/ StreamGotAccentPhrases
    \/ StreamCallSynthesis \/ StreamGotSynthesis
    \/ StreamWaitPrevious \/ StreamPlay \/ StreamPrintElapsed \/ StreamFinalWait
    \/ RequestReturn \/ RequestRaise \/ PutLog \/ SetContent
    \/ Propagate \/ PlaybackFinish \/ Tick

SpecStream == InitStream /\ [][NextStream]_vars

NextBatch ==
    \/ BatchCallAudioQuery \/ BatchGotAudioQuery
    \/ BatchCallMultiSynthesis \/ BatchGotMultiSynthesis \/ BatchUnzip
    \/ BatchCallConnectWaves \/ BatchGotConnectWaves \/ BatchPrintElapsed
    \/ BatchPlay \/ BatchWait
    \/ RequestReturn \/ RequestRaise \/ PutLog \/ SetContent
    \/ Propagate \/ PlaybackFinish \/ Tick

SpecBatch == InitBatch /\ [][NextBatch]_vars

\* a facade is built for a client that will call its methods
InitFacade ==
    /\ InitCommon
    /\ NoCliInput
    /\ texts = <<>>
    /\ speaker_id \in SpeakerIds
    /\ text_src_name = DefaultTag
    /\ has_dump_dir \in BOOLEAN
    /\ pc = "api"
    /\ apis = NoApis
    /\ files = NoFiles
    /\ dirs = {}
    /\ dumper = NoDumper

InitService == mode = "session" /\ InitFacade

\* a sequence of facade calls; time is not observed
NextService ==
    \/ ApiCall \/ ApiReturn
    \/ RequestReturn \/ RequestRaise \/ PutLog \/ SetContent
    \/ Propagate

SpecService == InitService /\ [][NextService]_vars

InitCall == mode = "call" /\ InitFacade

\* one facade call, with the clock running
NextCall ==
    \/ ApiCall \/ ApiReturn
    \/ RequestReturn \/ RequestRaise \/ PutLog \/ SetContent
    \/ Propagate \/ Tick

SpecCall == InitCall /\ [][NextCall]_vars

\* a TaggedDumper is constructed over a directory that may hold files
InitDumper ==
    /\ InitCommon
    /\ NoCliInput
    /\ mode = "dumper"
    /\ texts = <<>>
    /\ speaker_id = 0
    /\ text_src_name = DefaultTag
    /\ has_dump_dir = TRUE
    /\ pc = "dumper"
    /\ apis = NoApis
    /\ \E old \in SUBSET OldNames :
         /\ files = [p \in { [dir |-> DumperDir, name |-> n] : n \in old } |-> OldFile]
         /\ dirs \in (IF old = {} THEN { {}, { DumperDir } } ELSE { { DumperDir } })
    /\ dumper \in { NewDumper(DumperDir, ExtJson, i) : i \in BOOLEAN }

NextDumper == DumperDump

SpecDumper == InitDumper /\ [][NextDumper]_vars

----------------------------------------------------------------------------
(* The -n/--line_numbers argument and range_tuple (text_to_speech.py).     *)

MaxInputLines == 5       \* most lines of an input that a selector is applied to
MaxSelectorItems == 2    \* most comma-separated items of a selector

\* what a caller writes after -n: a line number, a range whose bounds may be
\* left out (-1), or a word that is no number
IndexItem(n) == [kind |-> "index", lo |-> n, hi |-> n, sep |-> ""]
RangeItem(lo, sep, hi) == [kind |-> "range", lo |-> lo, hi |-> hi, sep |-> sep]
WordItem == [kind |-> "word", lo |-> 0, hi |-> 0, sep |-> ""]

SelectorItems ==
    { IndexItem(0), IndexItem(2), IndexItem(10), WordItem,
      RangeItem(4, "-", 5), RangeItem(2, ":", -1), RangeItem(-1, "-", 3),
      RangeItem(3, "-", 1), RangeItem(4, "-", 9) }

\* the text of one item
ItemText(item) ==
    CASE item.kind = "index" -> Decimal(item.lo)
      [] item.kind = "word" -> << "x" >>
      [] OTHER -> (IF item.lo < 0 THEN <<>> ELSE Decimal(item.lo))
                  \o << item.sep >>
                  \o (IF item.hi < 0 THEN <<>> ELSE Decimal(item.hi))

RECURSIVE SelectorText(_)
\* the items joined with commas
SelectorText(items) ==
    IF Len(items) = 0 THEN <<>>
    ELSE IF Len(items) = 1 THEN ItemText(items[1])
    ELSE ItemText(items[1]) \o << "," >> \o SelectorText(Tail(items))

IsDigit(c) == \E d \in 1..10 : Digits[d] = c

DigitValue(c) == (CHOOSE d \in 1..10 : Digits[d] = c) - 1

RECURSIVE ParseInt(_)
\* int(s) for a string of digits
ParseInt(s) ==
    IF Len(s) = 0 THEN 0
    ELSE 10 * ParseInt(SubSeq(s, 1, Len(s) - 1)) + DigitValue(s[Len(s)])

RECURSIVE LeadingDigits(_)
\* what a greedy \d* matches at the start of s
LeadingDigits(s) ==
    IF Len(s) > 0 /\ IsDigit(s[1]) THEN << s[1] >> \o LeadingDigits(Tail(s))
    ELSE <<>>

RECURSIVE Split(_, _)
\* s.split(c)
Split(s, c) ==
    IF \E i \in 1..Len(s) : s[i] = c
    THEN LET i == CHOOSE k \in 1..Len(s) :
                    s[k] = c /\ \A j \in 1..(k - 1) : s[j] # c
         IN  << SubSeq(s, 1, i - 1) >> \o Split(SubSeq(s, i + 1, Len(s)), c)
    ELSE << s >>

\* an optional int: None or a number
None == [some |-> FALSE, v |-> 0]
Some(n) == [some |-> TRUE, v |-> n]

\* the truth value Python gives an optional int
Truthy(o) == o.some /\ o.v # 0

\* re.match(r"(\d*)[-:](\d*)", number): matched, group(1), group(2)
MatchRange(number) ==
    LET g1 == LeadingDigits(number)
        rest == SubSeq(number, Len(g1) + 1, Len(number))
    IN  IF Len(rest) > 0 /\ rest[1] \in {"-", ":"}
        THEN [matched |-> TRUE, g1 |-> g1, g2 |-> LeadingDigits(Tail(rest))]
        ELSE [matched |-> FALSE, g1 |-> <<>>, g2 |-> <<>>]

\* an entry that keeps the line number as the caller wrote it
IntEntryOneBased(i) == [kind |-> "int", start |-> Some(i + 1), stop |-> None]

\* an element of the tuple range_tuple returns: int(number) - 1 or a slice
IntEntry(i) == [kind |-> "int", start |-> Some(i), stop |-> None]
SliceEntry(start, stop) == [kind |-> "slice", start |-> start, stop |-> stop]

\* the body of range_tuple's loop for one piece of the split argument:
\* the entries it appends, whether it prints its warning, whether int() raises
RangeTupleItem(number) ==
    LET m == MatchRange(number)
        start == IF Len(m.g1) > 0 THEN Some(ParseInt(m.g1) - 1) ELSE None
        stop == IF Len(m.g2) > 0 THEN Some(ParseInt(m.g2)) ELSE None
    IN  IF m.matched
        THEN IF Truthy(start) /\ Truthy(stop) /\ ~(stop.v >= start.v)
             THEN [raised |-> FALSE, warned |-> TRUE, entries |-> <<>>]
             ELSE [raised |-> FALSE, warned |-> FALSE,
                   entries |-> << SliceEntry(start, stop) >>]
        ELSE IF Len(number) > 0 /\ \A i \in 1..Len(number) : IsDigit(number[i])
             THEN [raised |-> FALSE, warned |-> FALSE,
                   entries |-> << IntEntry(ParseInt(number) - 1) >>]
             ELSE [raised |-> TRUE, warned |-> FALSE, entries |-> <<>>]

RECURSIVE RangeTupleLoop(_)
\* range_tuple's loop over the pieces: the tuple built, the number of
\* warnings printed, and whether a ValueError ended it
RangeTupleLoop(numbers) ==
    IF Len(numbers) = 0 THEN [raised |-> FALSE, warnings |-> 0, entries |-> <<>>]
    ELSE LET head == RangeTupleItem(numbers[1])
             rest == RangeTupleLoop(Tail(numbers))
             w == IF head.warned THEN 1 ELSE 0
         IN  IF head.raised
             THEN [raised |-> TRUE, warnings |-> 0, entries |-> <<>>]
             ELSE [raised |-> rest.raised, warnings |-> w + rest.warnings,
                   entries |-> head.entries \o rest.entries]

\* range_tuple(arg)
RangeTuple(arg) == RangeTupleLoop(Split(arg, ","))

\* the bound of a slice applied to a list of n elements
SliceBound(o, n, default) ==
    IF ~o.some THEN default
    ELSE IF o.v < 0 THEN (IF o.v + n < 0 THEN 0 ELSE o.v + n)
    ELSE IF o.v > n THEN n ELSE o.v

\* xs[entry]: the element or the sub-list, raised for IndexError
GetItem(entry, xs) ==
    LET n == Len(xs)
    IN  IF entry.kind = "int"
        THEN LET i == IF entry.start.v < 0 THEN entry.start.v + n
                      ELSE entry.start.v
             IN  IF i >= 0 /\ i < n
                 THEN [raised |-> FALSE, items |-> << xs[i + 1] >>]
                 ELSE [raised |-> TRUE, items |-> <<>>]
        ELSE [raised |-> FALSE,
              items |-> SubSeq(xs, SliceBound(entry.start, n, 0) + 1,
                                   SliceBound(entry.stop, n, n))]

RECURSIVE ItemGetter(_, _)
\* itemgetter(*entries)(xs), flattened as main flattens it: a lone element
\* becomes a list of one, a lone slice is taken as is, a tuple is walked with
\* extend for the lists and append for the elements
ItemGetter(entries, xs) ==
    IF Len(entries) = 0 THEN [raised |-> FALSE, items |-> <<>>]
    ELSE LET head == GetItem(entries[1], xs)
             rest == ItemGetter(Tail(entries), xs)
         IN  [raised |-> head.raised \/ rest.raised,
              items |-> IF head.raised \/ rest.raised THEN <<>>
                        ELSE head.items \o rest.items]

----------------------------------------------------------------------------
(* main (text_to_speech.py): ingestion of the input lines.                 *)

MaxCodedLines == 2       \* most lines of an input with mixed encodings

\* a line as read: id names its content, cls says how its characters code,
\* bom that it starts with U+FEFF, ws that it ends with its newline
RawLine(id, cls, bom) == [id |-> id, cls |-> cls, bom |-> bom, ws |-> TRUE]

\* an input that consists of U+FEFF and nothing else
BomOnlyLine == [id |-> 1, cls |-> "empty", bom |-> TRUE, ws |-> FALSE]

\* a text line handed on: form says which decoding produced it
Text(id, form, bom, ws) == [id |-> id, form |-> form, bom |-> bom, ws |-> ws]

\* lines of a text-mode stdin: "ascii" survives the reinterpretation
\* unchanged, "mojibake" is changed by it, "kanji" encodes to bytes that are
\* no UTF-8, "unmappable" has a character cp932 lacks
StrClasses == {"ascii", "mojibake", "kanji", "unmappable"}

\* lines of a binary file: UTF-8 text, or bytes that are no UTF-8
BytesClasses == {"ascii", "sjis"}

\* byte_strings[0] == "\ufeff": a bytes object never equals a str
EqualsBom(line) == is_stdin /\ line = BomOnlyLine

\* str.strip(): U+FEFF is no whitespace and stays
Strip(t) == [t EXCEPT !.ws = FALSE]

\* line.encode("cp932", "surrogateescape").decode("utf-8").strip()
Reinterpret(line) ==
    IF line.bom \/ line.cls = "unmappable"
    THEN [exc |-> "UnicodeEncodeError", text |-> Text(0, "", FALSE, FALSE)]
    ELSE IF line.cls = "kanji"
    THEN [exc |-> "UnicodeDecodeError", text |-> Text(0, "", FALSE, FALSE)]
    ELSE [exc |-> "none",
          text |-> Strip(Text(line.id,
                              IF line.cls = "mojibake" THEN "reinterpreted"
                              ELSE "plain",
                              line.bom, line.ws))]

RECURSIVE FirstException(_)
\* the exception the list comprehension over the lines ends with
FirstException(ls) ==
    IF Len(ls) = 0 THEN "none"
    ELSE IF Reinterpret(ls[1]).exc # "none" THEN Reinterpret(ls[1]).exc
    ELSE FirstException(Tail(ls))

\* line.strip() of a str line
StripLine(line) == Strip(Text(line.id, "plain", line.bom, line.ws))

\* line.decode("utf-8").strip() of a bytes line: U+FEFF is kept
DecodeUtf8(line) ==
    IF line.cls = "sjis"
    THEN [exc |-> "UnicodeDecodeError", text |-> Text(0, "", FALSE, FALSE)]
    ELSE [exc |-> "none", text |-> StripLine(line)]

\* one print() call, or the lines of a traceback or of a usage message
Printed(stream, text, lines) == [stream |-> stream, text |-> text, lines |-> lines]

\* traceback.print_exc(): the traceback's lines on the error stream
Traceback == Printed("stderr", "Traceback", 3)

\* argparse's parser.error(): the usage and the error line, exit status 2
UsageError == Printed("stderr", "usage", 2)

\* what main is started with and never assigns
inputVars == << mode, is_stdin, byte_strings, selector, line_numbers_arg,
                has_dump_dir, dumper >>

RECURSIVE Warnings(_)
\* range_tuple's warning, printed n times
Warnings(n) ==
    IF n = 0 THEN <<>>
    ELSE << Printed("stdout", "[Warn] start:stop form should be stop >= start, Ignored.", 1) >>
         \o Warnings(n - 1)

\* parse_args: argparse hands the -n text to range_tuple; a ValueError of
\* int() becomes a usage error
ParseArgs ==
    /\ pc = "m_args"
    /\ IF selector = <<>>
       THEN /\ pc' = "m_read"
            /\ UNCHANGED << line_numbers, printed, exit_code >>
       ELSE LET r == RangeTuple(line_numbers_arg)
            IN  IF r.raised
                THEN /\ printed' = printed \o Warnings(r.warnings) \o << UsageError >>
                     /\ exit_code' = 2
                     /\ pc' = "exited"
                     /\ UNCHANGED line_numbers
                ELSE /\ printed' = printed \o Warnings(r.warnings)
                     /\ line_numbers' = r.entries
                     /\ pc' = "m_read"
                     /\ UNCHANGED exit_code
    /\ UNCHANGED << inputVars, texts, speaker_id, text_src_name, exc, pipeVars,
                    runVars, dumpVars, now >>

\* byte_strings = args.speech_file.readlines(); if not byte_strings: ...
MainReadLines ==
    /\ pc = "m_read"
    /\ IF byte_strings = <<>>
       THEN /\ printed' = Append(printed, Printed("stdout", "[Error] No input.", 1))
            /\ exit_code' = 1
            /\ pc' = "exited"
       ELSE /\ pc' = "m_decode"
            /\ UNCHANGED << printed, exit_code >>
    /\ UNCHANGED << inputVars, line_numbers, texts, speaker_id, text_src_name,
                    exc, pipeVars, runVars, dumpVars, now >>

\* a decoding that falls back for the failing lines only
MainDecodeStrFallbackPerLine ==
    [i \in 1..Len(byte_strings) |->
       IF Reinterpret(byte_strings[i]).exc = "none"
       THEN Reinterpret(byte_strings[i]).text
       ELSE StripLine(byte_strings[i])]

\* except UnicodeDecodeError: texts = [line.strip() for line in byte_strings]
MainDecodeStrFallback ==
    [i \in 1..Len(byte_strings) |-> StripLine(byte_strings[i])]

\* the elif chain that decodes byte_strings into texts
MainDecode ==
    /\ pc = "m_decode"
    /\ IF EqualsBom(byte_strings[1])
       THEN \* line.decode("utf-8-sig") of a str
            /\ pc' = "crashed"
            /\ exc' = "AttributeError"
            /\ UNCHANGED << texts, printed, exit_code >>
       ELSE IF is_stdin
       THEN LET e == FirstException(byte_strings)
            IN  CASE e = "none" ->
                       /\ texts' = [i \in 1..Len(byte_strings) |->
                                      Reinterpret(byte_strings[i]).text]
                       /\ pc' = "m_select"
                       /\ UNCHANGED << exc, printed, exit_code >>
                  [] e = "UnicodeDecodeError" ->
                       /\ texts' = MainDecodeStrFallback
                       /\ pc' = "m_select"
                       /\ UNCHANGED << exc, printed, exit_code >>
                  [] e = "UnicodeEncodeError" ->
                       /\ printed' = printed \o
                            << Printed("stdout",
                                 IF is_stdin
                                 THEN "[Error] Unreadable string(s) came from stdin."
                                 ELSE "[Error] Unreadable string(s) appeared in file.", 1),
                               Traceback >>
                       /\ exit_code' = 1
                       /\ pc' = "exited"
                       /\ UNCHANGED << exc, texts >>
       ELSE IF \E i \in 1..Len(byte_strings) : DecodeUtf8(byte_strings[i]).exc # "none"
            THEN /\ pc' = "crashed"
                 /\ exc' = "UnicodeDecodeError"
                 /\ UNCHANGED << texts, printed, exit_code >>
            ELSE /\ texts' = [i \in 1..Len(byte_strings) |->
                                DecodeUtf8(byte_strings[i]).text]
                 /\ pc' = "m_select"
                 /\ UNCHANGED << exc, printed, exit_code >>
    /\ UNCHANGED << inputVars, line_numbers, speaker_id, text_src_name,
                    pipeVars, runVars, dumpVars, now >>

\* if args.line_numbers: texts = the lines the selector names
MainSelect ==
    /\ pc = "m_select"
    /\ IF line_numbers = <<>>
       THEN /\ pc' = "m_names"
            /\ UNCHANGED << texts, printed, exit_code >>
       ELSE LET r == ItemGetter(line_numbers, texts)
            IN  IF r.raised
                THEN /\ printed' = Append(printed,
                           Printed("stdout", "[Error] -n/--line_numbers has invalid index.", 1))
                     /\ exit_code' = 1
                     /\ pc' = "exited"
                     /\ UNCHANGED texts
                ELSE /\ texts' = r.items
                     /\ pc' = "m_names"
                     /\ UNCHANGED << printed, exit_code >>
    /\ UNCHANGED << inputVars, line_numbers, speaker_id, text_src_name, exc,
                    pipeVars, runVars, dumpVars, now >>

\* the stem of the input file's name
FileStem == <<"i", "n">>

\* text_src_name and speaker_id
MainNames ==
    /\ pc = "m_names"
    /\ text_src_name' = IF is_stdin THEN <<"s", "t", "d", "i", "n">> ELSE FileStem
    /\ speaker_id' = IF speaker_id > 0 THEN speaker_id ELSE 0
    /\ pc' = "m_version"
    /\ UNCHANGED << inputVars, line_numbers, printed, exit_code, texts, exc,
                    pipeVars, runVars, dumpVars, now >>

\* version = service.version()
MainCallVersion ==
    /\ pc = "m_version"
    /\ Issue(Args("version"))
    /\ pc' = "m_version_ret"
    /\ UNCHANGED << envVars, exc, pipeVars, fsVars, now >>

\* print("{:>18}:  {}".format("ENGINE version", version))
MainGotVersion ==
    /\ pc = "m_version_ret"
    /\ TakeReturn
    /\ printed' = Append(printed, Printed("stdout", "ENGINE version", 1))
    /\ pc' = "m_speakers"
    /\ UNCHANGED << inputVars, line_numbers, exit_code, texts, speaker_id,
                    text_src_name, exc, pipeVars, dumpVars, now >>

\* service.speakers()
MainCallSpeakers ==
    /\ pc = "m_speakers"
    /\ Issue(Args("speakers"))
    /\ pc' = "m_speakers_ret"
    /\ UNCHANGED << envVars, exc, pipeVars, fsVars, now >>

\* a main that finds out that it has no line only after the engine calls
MainGotSpeakersThenCheck ==
    /\ pc = "m_speakers_ret"
    /\ TakeReturn
    /\ IF texts = <<>>
       THEN /\ printed' = Append(printed, Printed("stdout", "[Error] No input.", 1))
            /\ exit_code' = 1
            /\ pc' = "exited"
       ELSE /\ printed' = Append(printed, Printed("stdout", "speakers", 1))
            /\ pc' = "m_tts"
            /\ UNCHANGED exit_code
    /\ UNCHANGED << inputVars, line_numbers, texts, speaker_id,
                    text_src_name, exc, pipeVars, dumpVars, now >>

\* pprint.pprint(...) of the speakers; main goes on to tts_batch or tts_stream
MainGotSpeakers ==
    /\ pc = "m_speakers_ret"
    /\ TakeReturn
    /\ printed' = Append(printed, Printed("stdout", "speakers", 1))
    /\ pc' = "m_tts"
    /\ UNCHANGED << inputVars, line_numbers, exit_code, texts, speaker_id,
                    text_src_name, exc, pipeVars, dumpVars, now >>

\* the inputs with plain lines, to which selectors are applied
PlainInputs ==
    { [i \in 1..n |-> RawLine(i, "ascii", FALSE)] : n \in 0..MaxInputLines }

\* the inputs whose lines code differently; the first may start with U+FEFF
CodedInputs(classes) ==
    { [i \in 1..Len(cs) |-> RawLine(i, cs[i], i = 1 /\ b)] :
        cs \in SeqsUpTo(classes, MaxCodedLines) \ { <<>> }, b \in BOOLEAN }

\* the process is started: arguments on the command line, lines in the file
\* or on stdin, nothing parsed yet
InitMain ==
    /\ InitCommon
    /\ mode = "main"
    /\ pc = "m_args"
    /\ is_stdin \in BOOLEAN
    /\ \/ /\ byte_strings \in PlainInputs
          /\ selector \in SeqsUpTo(SelectorItems, MaxSelectorItems)
       \/ /\ byte_strings \in
               CodedInputs(IF is_stdin THEN StrClasses ELSE BytesClasses)
               \cup (IF is_stdin THEN { << BomOnlyLine >> } ELSE {})
          /\ selector = <<>>
    /\ line_numbers_arg = SelectorText(selector)
    /\ texts = <<>>
    /\ speaker_id \in SpeakerIds
    /\ text_src_name = <<>>
    /\ has_dump_dir \in BOOLEAN
    /\ apis = NoApis
    /\ files = NoFiles
    /\ dirs = {}
    /\ dumper = NoDumper

NextMain ==
    \/ ParseArgs \/ MainReadLines \/ MainDecode \/ MainSelect \/ MainNames
    \/ MainCallVersion \/ MainGotVersion \/ MainCallSpeakers \/ MainGotSpeakers
    \/ RequestReturn \/ RequestRaise \/ PutLog \/ SetContent \/ Propagate

SpecMain == InitMain /\ [][NextMain]_vars

----------------------------------------------------------------------------
(* The batch branch of main.main (main.py), which run of main.py calls     *)
(* for the tts command: the engine calls of tts_batch, then the print,     *)
(* and the function is over.                                               *)

\* after print("{:.3f} [sec]".format(t.elapsed())) main returns
MainBatchReturn ==
    /\ mode = "main_batch"
    /\ pc = "b_play"
    /\ pc' = "done"
    /\ UNCHANGED << envVars, exc, pipeVars, runVars, dumpVars, now >>

InitMainBatch == mode = "main_batch" /\ InitPipeline

NextMainBatch ==
    \/ BatchCallAudioQuery \/ BatchGotAudioQuery
    \/ BatchCallMultiSynthesis \/ BatchGotMultiSynthesis \/ BatchUnzip
    \/ BatchCallConnectWaves \/ BatchGotConnectWaves \/ BatchPrintElapsed
    \/ MainBatchReturn
    \/ RequestReturn \/ RequestRaise \/ PutLog \/ SetContent
    \/ Propagate \/ Tick

SpecMainBatch == InitMainBatch /\ [][NextMainBatch]_vars

----------------------------------------------------------------------------
(* Properties.                                                             *)

\* the calls that have not yet returned or raised
InFlight == { k \in 1..Len(calls) : calls[k].state = "inflight" }

\* C1: in streaming mode at most one playback handle is outstanding at any
\* time, and it is the one started last: playback of waveform i never starts
\* before playback of waveform i-1 has finished.
C1_OnePlaybackAtATime ==
    /\ Cardinality(outstanding) <= 1
    /\ outstanding \subseteq { Len(played) }

\* a second playback has started, after the first one finished
C1_Witness == Len(played) >= 2 /\ Len(played) \in outstanding

\* C2: in streaming mode the network calls for the next line are not held
\* back by a playback: wherever the loop stands before accent_phrases or
\* synthesis, the call can be issued, whether or not a playback is outstanding.
C2_NetworkNotBlockedByPlayback ==
    /\ (pc = "s_loop" /\ idx < Len(texts)) => ENABLED StreamCallAccentPhrases
    /\ pc = "s_syn" => ENABLED StreamCallSynthesis

\* the synthesis request for line i+1 is in flight while line i still plays
C2_Witness ==
    /\ rpc = "request"
    /\ cur.api = "synthesis"
    /\ idx >= 1
    /\ Len(played) = idx
    /\ idx \in outstanding

\* the k-th engine call tts_stream makes over texts
StreamExpected(k) ==
    IF k = 1 THEN [api |-> "audio_query", text |-> ""]
    ELSE IF k % 2 = 0 THEN [api |-> "accent_phrases", text |-> texts[k \div 2]]
    ELSE [api |-> "synthesis", text |-> ""]

\* C3: in streaming mode the engine calls are audio_query(""), then
\* accent_phrases(l_i) and synthesis for each line in order, each once and
\* never repeated; a call is issued only after the previous one returned, so
\* at most one call is in flight.
C3_StreamCallOrder ==
    /\ Len(calls) <= 1 + 2 * Len(texts)
    /\ \A k \in 1..Len(calls) :
         /\ calls[k].args.api = StreamExpected(k).api
         /\ calls[k].args.text = StreamExpected(k).text
         /\ k < Len(calls) => calls[k].state = "returned"
    /\ Cardinality(InFlight) <= 1
    /\ pc = "done" => Len(calls) = 1 + 2 * Len(texts)

\* a run over two lines has returned after its five calls
C3_Witness == pc = "done" /\ Len(texts) = 2 /\ Len(calls) = 5

\* C4: a streaming run that has returned has handed every waveform to
\* playback and the playback of the last one has finished.
C4_ReturnsAfterLastPlayback ==
    pc = "done" =>
      /\ Len(played) = Len(texts)
      /\ play_obj = Len(played)
      /\ play_obj \notin outstanding

\* a run over two lines has returned
C4_Witness == pc = "done" /\ Len(played) = 2

\* C5: in batch mode the engine calls are audio_query(l_i) for each line in
\* order, then one multi_synthesis whose query list is the audio_query
\* results in line order, then one connect_waves; each is issued only after
\* the previous call returned.
C5_BatchCallOrder ==
    LET n == Len(texts)
    IN  /\ Len(calls) <= n + 2
        /\ \A k \in 1..Len(calls) :
             /\ k < Len(calls) => calls[k].state = "returned"
             /\ k <= n => /\ calls[k].args.api = "audio_query"
                          /\ calls[k].args.text = texts[k]
             /\ k = n + 1 =>
                  /\ calls[k].args.api = "multi_synthesis"
                  /\ calls[k].args.audio_queries =
                       [i \in 1..n |-> calls[i].result]
             /\ k = n + 2 => calls[k].args.api = "connect_waves"
        /\ Cardinality(InFlight) <= 1
        /\ pc = "done" => Len(calls) = n + 2

\* a batch over two different lines has returned after its four calls
C5_Witness ==
    /\ pc = "done"
    /\ Len(texts) = 2
    /\ texts[1] # texts[2]
    /\ Len(calls) = 4

\* C6: the base64 list passed to connect_waves has one entry per member of
\* the archive multi_synthesis returned, entry i encoding member i.
C6_ArchiveOrderPreserved ==
    \A k \in 1..Len(calls) :
      calls[k].args.api = "connect_waves" =>
        LET members == calls[k - 1].result.members
        IN  /\ calls[k - 1].args.api = "multi_synthesis"
            /\ calls[k].args.base64_waves =
                 [i \in 1..Len(members) |-> StandardB64Encode(members[i].data)]

\* connect_waves was called for an archive stored as [b, a, c]
C6_Witness ==
    /\ Len(calls) >= 2
    /\ calls[Len(calls)].args.api = "connect_waves"
    /\ ZipNameList(calls[Len(calls) - 1].result) = << "b", "a", "c" >>
    /\ calls[Len(calls)].args.base64_waves =
         << <<"S", "U", "Y", "=">>, <<"U", "g", "=", "=">>, <<"R", "l", "d", "B">> >>

\* call k of a batch run failed as a stage: the engine answered with an HTTP
\* error, or the archive it returned is corrupt or has no member
StageFailed(k) ==
    \/ calls[k].kind = "http_error"
    \/ /\ calls[k].args.api = "multi_synthesis"
       /\ calls[k].state = "returned"
       /\ \/ ~IsZip(calls[k].result)
          \/ calls[k].result.members = <<>>

\* C7: in batch mode connect_waves is never called after a stage failure.
C7_NoConcatAfterFailure ==
    \A k \in 1..Len(calls) :
      calls[k].args.api = "connect_waves" =>
        \A j \in 1..(k - 1) : ~StageFailed(j)

\* C8: every run performs request, log, extract once each in that order, and
\* the elapsed time the log step prints is the time the request step took,
\* whatever time log and extract take.
C8_TelemetryTiming ==
    /\ \E n \in 0..3 : steps = SubSeq(<< "request", "log", "extract" >>, 1, n)
    /\ rpc = "returned" => steps = << "request", "log", "extract" >>
    /\ rpc \in {"extract", "returned"} =>
         logged.time = Round3(req_end - req_begin)

\* a run has returned whose log or extract step took long enough for a
\* timer read at the end to show another value
C8_Witness ==
    /\ rpc = "returned"
    /\ Round3(now - req_begin) # logged.time

\* the name an indexed dump number k gives to tag
IndexedName(tag, k, ext) ==
    tag \o << "_", Digits[((k \div 100) % 10) + 1],
              Digits[((k \div 10) % 10) + 1], Digits[(k % 10) + 1], "." >> \o ext

\* C9: the k-th dump of an indexed dumper writes suffix _00k, the counter
\* starts at 1 and moves by one per dump, and no two dumps write the same
\* file, so every file written is still there.
C9_IndexedDumps ==
    dumper.index > 0 =>
      /\ dumper.index = Len(dumps) + 1
      /\ \A k \in 1..Len(dumps) :
           /\ \E tag \in DumperTags :
                dumps[k].name = IndexedName(tag, k, dumper.ext)
           /\ dumps[k] \in DOMAIN files
           /\ \A j \in 1..(k - 1) : dumps[j] # dumps[k]
      /\ Cardinality({ dumps[k] : k \in 1..Len(dumps) }) = Len(dumps)

\* three dumps with the same tag have been written by an indexed dumper
C9_Witness ==
    /\ dumper.index > 0
    /\ Len(dumps) = 3
    /\ \A k \in 1..3 : dumps[k].name = IndexedName(<<"t">>, k, ExtJson)

\* C10: a JSON endpoint whose response has status 200 and a body that is not
\* JSON returns the empty object and does not raise.
C10_JsonDecodeFallback ==
    \A k \in 1..Len(calls) :
      (calls[k].args.api \in JsonApis /\ calls[k].kind = "garbled") =>
        /\ calls[k].state # "raised"
        /\ calls[k].state = "returned" => calls[k].result = EmptyObj

\* such a call returned {} and the client went on to its next call
C10_Witness ==
    /\ Len(calls) = 2
    /\ calls[1].args.api \in JsonApis
    /\ calls[1].kind = "garbled"
    /\ calls[1].result = EmptyObj

\* call k did not get a 2xx answer: the transport failed or the engine
\* answered with an error status
TransportFailed(k) == calls[k].kind \in {"transport", "http_error"}

\* C11: a transport error, a non-2xx answer included, ends the run: a
\* streaming run issues no engine call after a call that failed, and starts
\* no playback after it (call k is preceded by the playbacks of the
\* synthesis calls before it only).
C11_TransportErrorTerminates ==
    \A k \in 1..Len(calls) :
      TransportFailed(k) =>
        /\ k = Len(calls)
        /\ Len(played) <= (IF k < 3 THEN 0 ELSE (k - 2) \div 2)

\* main is past its selection step
PastSelect == pc \notin {"m_args", "m_read", "m_decode", "m_select"}

\* the lines item names among n lines: line lo for an index, lines lo to hi
\* for a range, a bound left out standing for the first or the last line
NamedFrom(item, n) == IF item.lo < 0 THEN 1 ELSE item.lo
NamedTo(item, n) == IF item.hi < 0 THEN n ELSE item.hi
NamedLines(item, n) ==
    [k \in 1..(NamedTo(item, n) - NamedFrom(item, n) + 1) |->
       NamedFrom(item, n) + k - 1]

\* item is a line number or a range of line numbers of an n-line input
WellFormed(item, n) ==
    /\ item.kind \in {"index", "range"}
    /\ 1 <= NamedFrom(item, n)
    /\ NamedFrom(item, n) <= NamedTo(item, n)
    /\ NamedTo(item, n) <= n

RECURSIVE ConcatNamed(_, _)
ConcatNamed(items, n) ==
    IF Len(items) = 0 THEN <<>>
    ELSE NamedLines(items[1], n) \o ConcatNamed(Tail(items), n)

\* C12: a selector of 1-based line numbers and ranges resolves to the lines
\* its items name, concatenated in the order of the items; the run goes on
\* with exactly these lines.
C12_SelectorResolution ==
    LET n == Len(byte_strings)
    IN  ( /\ PastSelect
          /\ selector # <<>>
          /\ \A i \in 1..Len(selector) : WellFormed(selector[i], n) )
        => /\ exit_code = -1
           /\ [i \in 1..Len(texts) |-> texts[i].id] = ConcatNamed(selector, n)

\* selector "2,4-5" over five lines has resolved to lines 2, 4, 5
C12_Witness ==
    /\ pc = "m_tts"
    /\ Len(byte_strings) = 5
    /\ line_numbers_arg = << "2", ",", "4", "-", "5" >>
    /\ [i \in 1..Len(texts) |-> texts[i].id] = << 2, 4, 5 >>

\* item has a line number or a written range bound outside 1..n
OutOfRange(item, n) ==
    \/ item.kind = "index" /\ (item.lo < 1 \/ item.lo > n)
    \/ /\ item.kind = "range"
       /\ \/ item.lo >= 0 /\ (item.lo < 1 \/ item.lo > n)
          \/ item.hi >= 0 /\ (item.hi < 1 \/ item.hi > n)

\* C13: a selector with a line number or a range bound outside 1..n ends the
\* run at the selection step with exit code 1 and the message that names
\* -n/--line_numbers; no engine call is made.
C13_OutOfRangeSelectorFatal ==
    LET n == Len(byte_strings)
    IN  ( /\ PastSelect
          /\ n >= 1
          /\ \A i \in 1..Len(selector) : selector[i].kind # "word"
          /\ \E i \in 1..Len(selector) : OutOfRange(selector[i], n) )
        => /\ pc = "exited"
           /\ exit_code = 1
           /\ printed[Len(printed)].text = "[Error] -n/--line_numbers has invalid index."
           /\ calls = <<>>

\* main is past its decoding step
PastDecode == pc \notin {"m_args", "m_read", "m_decode"}

\* line i cannot be encoded to cp932 / encodes to bytes that are no UTF-8
EncodeFails(i) == byte_strings[i].bom \/ byte_strings[i].cls = "unmappable"
DecodeFails(i) == ~EncodeFails(i) /\ byte_strings[i].cls = "kanji"

\* the reinterpretation of str lines stops at line i, the first that fails
StopsAt(i) ==
    /\ i \in 1..Len(byte_strings)
    /\ EncodeFails(i) \/ DecodeFails(i)
    /\ \A j \in 1..(i - 1) : ~EncodeFails(j) /\ ~DecodeFails(j)

\* C14: the reinterpretation of str lines is decided once for the whole
\* input.  When it fails with a decode error every line is taken as it
\* was read (stripped), also the lines that could have been reinterpreted, and
\* the run continues; when it fails with an encode error the run exits with
\* code 1 after the message for stdin or for a file, whichever the input is.
C14_CascadeDecidedOnce ==
    ( /\ PastDecode
      /\ is_stdin
      /\ selector = <<>>
      /\ byte_strings # << BomOnlyLine >> )
    => \A i \in 1..Len(byte_strings) :
         /\ (StopsAt(i) /\ DecodeFails(i)) =>
              /\ exit_code = -1
              /\ pc # "exited"
              /\ Len(texts) = Len(byte_strings)
              /\ \A k \in 1..Len(texts) :
                   texts[k] = Text(k, "plain", FALSE, FALSE)
         /\ (StopsAt(i) /\ EncodeFails(i)) =>
              /\ pc = "exited"
              /\ exit_code = 1
              /\ calls = <<>>
              /\ printed[1].text =
                   (IF is_stdin THEN "[Error] Unreadable string(s) came from stdin."
                    ELSE "[Error] Unreadable string(s) appeared in file.")

\* a line that the reinterpretation would have changed is followed by one
\* that fails to decode: both were taken as read and the run has gone on
C14_Witness ==
    /\ pc = "m_tts"
    /\ Len(byte_strings) = 2
    /\ byte_strings[1].cls = "mojibake"
    /\ byte_strings[2].cls = "kanji"
    /\ texts[1].form = "plain"

\* C15: an input whose first line starts with the byte-order mark is decoded
\* with the mark stripped, from a file and from stdin alike: the run goes on
\* with one text per line and none of them starts with U+FEFF.
C15_BomStripped ==
    ( /\ PastDecode
      /\ selector = <<>>
      /\ byte_strings # <<>>
      /\ byte_strings[1].bom )
    => /\ pc \notin {"exited", "crashed"}
       /\ Len(texts) = Len(byte_strings)
       /\ \A k \in 1..Len(texts) : ~texts[k].bom

\* what main printed apart from range_tuple's warnings
Diagnostics ==
    SelectSeq(printed, LAMBDA p :
      p.text # "[Warn] start:stop form should be stop >= start, Ignored.")

\* C16: a run that ends in a fatal failure (no input, unreadable encoding,
\* invalid selector, invalid argument) has printed exactly one diagnostic
\* line, on the error stream, and exits with a non-zero code.
C16_SingleDiagnosticLine ==
    pc = "exited" =>
      /\ exit_code > 0
      /\ Len(Diagnostics) = 1
      /\ Diagnostics[1].stream = "stderr"
      /\ Diagnostics[1].lines = 1

\* C17: the log step never raises, so a run that has logged goes on to its
\* extract step, whatever audio query the streaming pipeline built.
C17_LogNeverRaises ==
    /\ exc \notin {"KeyError", "TypeError"}
    /\ (Len(steps) >= 2 /\ steps[2] = "log") => rpc \in {"extract", "returned"}

\* the calls of endpoint a that have returned
ReturnedCalls(a) ==
    { k \in 1..Len(calls) : calls[k].args.api = a /\ calls[k].state = "returned" }

----------------------------------------------------------------------------
(* C19: the streaming total and the playback waits.                        *)

\* the step of tts_stream that blocks on the previous playback handle
\* after the synthesis call of the last line has returned
WaitsBeforeLastPlayback ==
    /\ mode = "stream"
    /\ pc = "s_wait"
    /\ pc' = "s_play"
    /\ idx + 1 = Len(texts)
    /\ play_obj # 0

\* C19: in streaming mode the total elapsed time is reported exactly once per
\* run and is read when the last synthesis call completes, so no playback wait
\* is part of it: the wait for the previous playback that precedes the last
\* playback, like the final wait, only happens once the total has been reported
C19_TotalExcludesPlaybackWaits ==
    /\ [](mode = "stream" /\ pc = "done" => Len(reported) = 1)
    /\ [][reported' # reported => reported = <<>>]_vars
    /\ [][WaitsBeforeLastPlayback => Len(reported) = 1]_vars


----------------------------------------------------------------------------
(* C20: the playback of a batch run.                                       *)

BatchMode == mode \in {"batch", "main_batch"}

\* the last engine call is a connect_waves call that has returned to the
\* pipeline
ConnectWavesReturned ==
    /\ rpc = "idle"
    /\ calls # <<>>
    /\ calls[Len(calls)].args.api = "connect_waves"
    /\ calls[Len(calls)].state = "returned"

\* C20: a batch run that succeeds has started exactly one playback, of the
\* waveform connect_waves returned; a playback is only ever started once
\* connect_waves has returned, so none is started before or between the
\* engine calls.
C20_BatchSinglePlayback ==
    BatchMode =>
        /\ pc = "done" =>
              /\ Len(played) = 1
              /\ played[1] = wave_response
        /\ played # <<>> =>
              /\ Len(played) = 1
              /\ ConnectWavesReturned
              /\ played[1] = calls[Len(calls)].result


----------------------------------------------------------------------------
(* C21: what one dump call changes.                                        *)

\* the file name the claim gives for a dump with this tag, for a counter
\* of one digit
ClaimedName(tag) ==
    IF dumper.index = 0
    THEN tag \o <<".">> \o dumper.ext
    ELSE tag \o <<"_", "0", "0", Digits[dumper.index + 1]>> \o <<".">> \o dumper.ext

\* C21: a dump call creates the dump directory if it is missing and writes
\* the one file it names, {name}.{ext} for a non-indexed dumper, whose counter
\* stays as it is, and {name}_{counter:03d}.{ext} for an indexed one; every
\* other file of the directory is still there with its content.
C21_DumpChangesOneFile ==
    [][dumps' # dumps =>
        LET p == dumps'[Len(dumps')]
        IN  /\ dirs' = dirs \cup {dumper.dir}
            /\ p.dir = dumper.dir
            /\ \E tag \in DumperTags : p.name = ClaimedName(tag)
            /\ DOMAIN files' = DOMAIN files \cup {p}
            /\ \A q \in DOMAIN files : q # p => files'[q] = files[q]
            /\ dumper.index = 0 => dumper' = dumper
            /\ dumper.index > 0 => dumper' = [dumper EXCEPT !.index = @ + 1]]_vars

\* a non-indexed dumper has written the same file twice, next to a file that
\* was there before and is as it was
C21_Witness ==
    /\ mode = "dumper"
    /\ dumper.index = 0
    /\ Len(dumps) >= 2
    /\ dumps[1] = dumps[2]
    /\ LET keep == [dir |-> DumperDir, name |-> <<"k", "e", "e", "p">>]
       IN  keep \in DOMAIN files /\ files[keep] = OldFile


----------------------------------------------------------------------------
(* C22: the query a streaming run sends to synthesis.                      *)

\* the line whose synthesis call is call k of a streaming run: call 1 is the
\* audio_query, calls 2i and 2i + 1 are accent_phrases and synthesis of line i
LineOfCall(k) == k \div 2

\* C22: in streaming mode the template query comes from the one audio_query
\* call with the empty text; the query sent to synthesis for line i has the
\* accent phrases returned for line i and, in every other field, the values
\* that audio_query call returned.
C22_TemplateSplicedPerLine ==
    mode = "stream" =>
      /\ \A k \in 1..Len(calls) :
           calls[k].args.api = "audio_query" => k = 1 /\ calls[k].args.text = ""
      /\ \A k \in 1..Len(calls) :
           calls[k].args.api = "synthesis" =>
             /\ k >= 3
             /\ calls[k - 1].args.api = "accent_phrases"
             /\ calls[k - 1].args.text = texts[LineOfCall(k)]
             /\ calls[k - 1].state = "returned"
             /\ calls[k].args.audio_query.spliced
             /\ calls[k].args.audio_query.ap = calls[k - 1].result
             /\ calls[k].args.audio_query.base = calls[1].result

\* the synthesis call of a second line whose accent phrases differ from the
\* first line's
C22_Witness ==
    /\ mode = "stream"
    /\ Len(calls) >= 5
    /\ calls[5].args.api = "synthesis"
    /\ calls[3].args.api = "synthesis"
    /\ calls[5].args.audio_query.ap # calls[3].args.audio_query.ap
    /\ calls[5].args.audio_query.base = calls[1].result


----------------------------------------------------------------------------
(* C23: the playback handle a streaming run waits on.                      *)

\* C23: a streaming run waits only on a playback handle that exists: when
\* the loop is over a playback has been started, whatever the line list is,
\* the empty list included, and the final wait raises nothing.
C23_WaitsOnStartedPlayback ==
    mode = "stream" =>
      /\ pc = "s_final" => play_obj # 0 /\ played # <<>>
      /\ exc # "AttributeError"


----------------------------------------------------------------------------
(* C24: the lines that reach the pipeline under a selector.                *)

\* line number k of an n-line input is named by some item of the selector
NamedBySelector(k, n) ==
    \E j \in 1..Len(selector) :
       /\ selector[j].kind \in {"index", "range"}
       /\ \E m \in DOMAIN NamedLines(selector[j], n) :
            NamedLines(selector[j], n)[m] = k

\* C24: when a selector is given, every line handed to the pipeline is named
\* by an item of the selector; a reversed range names no line, so it adds
\* none.
C24_OnlySelectedLines ==
    (pc = "m_tts" /\ selector # <<>>) =>
        \A i \in 1..Len(texts) : NamedBySelector(texts[i].id, Len(byte_strings))


----------------------------------------------------------------------------
(* C25: ingestion and selection come before every engine request.          *)

\* nothing has been asked of the engine and nothing has been dumped
NoEngineTraffic ==
    /\ calls = <<>>
    /\ rpc = "idle"
    /\ dumps = <<>>
    /\ files = NoFiles
    /\ dirs = {}

\* C25: no engine request is issued before ingestion and selection have
\* succeeded: while main reads, decodes and selects, and in every run that has
\* ended with exit code 1 (no input, unreadable encoding, invalid selector),
\* no engine call has been made, version and speakers included, and no dump
\* file has been written.
C25_NoRequestBeforeIngestion ==
    /\ ~PastSelect => NoEngineTraffic
    /\ (pc = "exited" /\ exit_code = 1) => NoEngineTraffic

\* a run with a dump directory has ended with exit code 1 at the selection
\* step
C25_Witness ==
    /\ pc = "exited"
    /\ exit_code = 1
    /\ has_dump_dir
    /\ line_numbers # <<>>
    /\ printed[Len(printed)].text = "[Error] -n/--line_numbers has invalid index."
    /\ NoEngineTraffic


----------------------------------------------------------------------------
(* C26: the dump paths of one facade.                                      *)

\* the endpoints whose dumper is indexed
IndexedApis == ApiNames \ {"version", "speakers"}

\* the dumps written so far into the subdirectory of endpoint a, in order
DumpsOf(a) == SelectSeq(dumps, LAMBDA p : p.dir = a)

\* the calls so far that have dumped, in order: those that reached the end
\* of their extract step
DumpedCalls == SelectSeq(calls, LAMBDA c : c.state = "returned")

\* C26: within one facade with a dump directory, no two dumps of the indexed
\* endpoints write the same path: every call dumps into the subdirectory of
\* its endpoint's name, and the k-th dump of an endpoint carries counter k,
\* whatever its tag, the endpoint's counter standing at one more than the
\* number of its dumps.
C26_DumpPathsDistinct ==
    (mode = "session" /\ has_dump_dir) =>
      /\ Len(dumps) = Len(DumpedCalls)
      /\ \A j \in 1..Len(dumps) : dumps[j].dir = DumpedCalls[j].args.api
      /\ \A i, j \in 1..Len(dumps) :
           (i < j /\ dumps[i].dir \in IndexedApis) => dumps[i] # dumps[j]
      /\ \A a \in IndexedApis :
           LET ds == DumpsOf(a)
           IN  /\ \A k \in 1..Len(ds) :
                    /\ LET n == Len(ds[k].name) - Len(apis[a].dumper.ext) - 1
                       IN  /\ n > 4
                           /\ SubSeq(ds[k].name, n - 3, n)
                                = <<"_", "0", "0", Digits[k + 1]>>
                    /\ ds[k] \in DOMAIN files
               /\ Len(ds) > 0 => apis[a].dumper.index = Len(ds) + 1

\* one endpoint has dumped twice under two tags, into its own subdirectory,
\* with counters 1 and 2
C26_Witness ==
    /\ mode = "session"
    /\ has_dump_dir
    /\ Len(dumps) = 2
    /\ dumps[1].dir = "audio_query"
    /\ dumps[2].dir = "audio_query"
    /\ calls[1].args.tag # calls[2].args.tag
    /\ dumps[1].name = IndexedName(SpeakerTag(calls[1].args.tag, 0), 1, ExtJson)
    /\ dumps[2].name = IndexedName(SpeakerTag(calls[2].args.tag, 0), 2, ExtJson)

====
